---- MODULE Spec2Model ----
(***************************************************************************)
(* CertStudy server (server.js): the two request handlers                  *)
(* POST /api/generate-quiz and POST /api/explain, their input              *)
(* sanitization, the validation of the model's output, the cost estimate   *)
(* and the error classifier.                                               *)
(*                                                                         *)
(* JavaScript strings are sequences of one-character strings, so that      *)
(* slice, trim, toLowerCase, parseInt and String() are computed.           *)
(* A JavaScript value is a record [t, b, n, s]:                            *)
(*   t = "undef" | "null" | "bool" | "num" | "str" | "arr" | "obj" | "fn"  *)
(*   b the boolean, n the (integer) number, s the characters of a string   *)
(*   or the elements of an array of one-character strings.                 *)
(***************************************************************************)
EXTENDS Integers, Sequences, FiniteSets, TLC

VARIABLES apiKey, pc, req, locals, sent, calls, outcome, responses

vars == <<apiKey, pc, req, locals, sent, calls, outcome, responses>>

----------------------------------------------------------------------------
(* JavaScript values *)

Undef == [t |-> "undef", b |-> FALSE, n |-> 0, s |-> <<>>]
Null == [t |-> "null", b |-> FALSE, n |-> 0, s |-> <<>>]
Obj == [t |-> "obj", b |-> FALSE, n |-> 0, s |-> <<>>]
Fn == [t |-> "fn", b |-> FALSE, n |-> 0, s |-> <<>>]
Bool(x) == [t |-> "bool", b |-> x, n |-> 0, s |-> <<>>]
Num(x) == [t |-> "num", b |-> FALSE, n |-> x, s |-> <<>>]
Str(x) == [t |-> "str", b |-> FALSE, n |-> 0, s |-> x]
Arr(x) == [t |-> "arr", b |-> FALSE, n |-> 0, s |-> x]

Rep(c, k) == [i \in 1..k |-> c]

\* ToBoolean: what `!v`, `v || d` and `v && w` test.
Truthy(v) ==
  CASE v.t = "bool" -> v.b
    [] v.t = "num" -> v.n # 0
    [] v.t = "str" -> Len(v.s) > 0
    [] v.t \in {"arr", "obj", "fn"} -> TRUE
    [] OTHER -> FALSE

\* a || d
OrElse(v, d) == IF Truthy(v) THEN v ELSE d

\* a ?? d
Nullish(v) == v.t \in {"undef", "null"}
Coalesce(v, d) == IF Nullish(v) THEN d ELSE v

Digits == <<"0", "1", "2", "3", "4", "5", "6", "7", "8", "9">>
IsDigit(c) == \E i \in 1..10 : Digits[i] = c
DigitVal(c) == (CHOOSE i \in 1..10 : Digits[i] = c) - 1
IsSpace(c) == c \in {" ", "\n", "\t"}

RECURSIVE NatToStr(_)
NatToStr(k) ==
  IF k < 10 THEN <<Digits[k + 1]>>
  ELSE Append(NatToStr(k \div 10), Digits[(k % 10) + 1])

RECURSIVE JoinComma(_)
JoinComma(a) ==
  IF Len(a) = 0 THEN <<>>
  ELSE IF Len(a) = 1 THEN <<a[1]>>
  ELSE <<a[1], ",">> \o JoinComma(Tail(a))

\* String(v)
JsString(v) ==
  CASE v.t = "str" -> v.s
    [] v.t = "num" -> IF v.n < 0 THEN <<"-">> \o NatToStr(-v.n) ELSE NatToStr(v.n)
    [] v.t = "bool" -> IF v.b THEN <<"t", "r", "u", "e">> ELSE <<"f", "a", "l", "s", "e">>
    [] v.t = "null" -> <<"n", "u", "l", "l">>
    [] v.t = "undef" -> <<"u", "n", "d", "e", "f", "i", "n", "e", "d">>
    [] v.t = "arr" -> JoinComma(v.s)
    [] v.t = "fn" -> <<"f", "u", "n", "c", "t", "i", "o", "n">>
    [] OTHER -> <<"[", "o", "b", "j", "e", "c", "t", " ", "O", "b", "j", "e", "c", "t", "]">>

RECURSIVE TrimStart(_)
TrimStart(s) == IF Len(s) > 0 /\ IsSpace(s[1]) THEN TrimStart(Tail(s)) ELSE s

RECURSIVE TrimEnd(_)
TrimEnd(s) ==
  IF Len(s) > 0 /\ IsSpace(s[Len(s)]) THEN TrimEnd(SubSeq(s, 1, Len(s) - 1)) ELSE s

\* String.prototype.trim
Trim(s) == TrimEnd(TrimStart(s))

\* x.slice(0, k) of a string or an array
Slice0(s, k) == IF Len(s) <= k THEN s ELSE SubSeq(s, 1, k)

UpperChars == <<"A", "B", "C", "D", "E", "F", "G", "H", "I", "J", "K", "L", "M",
                "N", "O", "P", "Q", "R", "S", "T", "U", "V", "W", "X", "Y", "Z">>
LowerChars == <<"a", "b", "c", "d", "e", "f", "g", "h", "i", "j", "k", "l", "m",
                "n", "o", "p", "q", "r", "s", "t", "u", "v", "w", "x", "y", "z">>

LowerChar(c) ==
  IF \E i \in 1..26 : UpperChars[i] = c
  THEN LowerChars[CHOOSE i \in 1..26 : UpperChars[i] = c]
  ELSE c

\* String.prototype.toLowerCase
ToLowerCase(s) == [i \in 1..Len(s) |-> LowerChar(s[i])]

\* The leading run of decimal digits of s, as a number; acc is the value so far.
RECURSIVE DigitRun(_, _)
DigitRun(s, acc) ==
  IF Len(s) > 0 /\ IsDigit(s[1]) THEN DigitRun(Tail(s), acc * 10 + DigitVal(s[1]))
  ELSE acc

\* parseInt(v) with no radix: String(v), leading white space skipped, an
\* optional sign, then the leading decimal digits; NaN when there is none.
\* (The 0x prefix is not modelled; no input of the model carries it.)
ParseInt(v) ==
  LET s0 == TrimStart(JsString(v))
      neg == Len(s0) > 0 /\ s0[1] = "-"
      s1 == IF Len(s0) > 0 /\ s0[1] \in {"-", "+"} THEN Tail(s0) ELSE s0
  IN IF Len(s1) > 0 /\ IsDigit(s1[1])
     THEN [nan |-> FALSE, n |-> IF neg THEN -DigitRun(s1, 0) ELSE DigitRun(s1, 0)]
     ELSE [nan |-> TRUE, n |-> 0]

Min(a, b) == IF a < b THEN a ELSE b
Max(a, b) == IF a > b THEN a ELSE b

----------------------------------------------------------------------------
(* Input sanitization, lines 76-99 and 242-258 *)

MaxTopicLen == 80
MaxTextLen == 500
DefaultCount == 5
MinCount == 1
MaxCount == 15
ExtraQuestions == 3
MaxRequestCount == 20

DefaultTopic ==
  <<"A", "Z", "-", "9", "0", "0", " ", "(", "M", "i", "c", "r", "o", "s", "o", "f", "t",
    " ", "A", "z", "u", "r", "e", " ", "F", "u", "n", "d", "a", "m", "e", "n", "t", "a",
    "l", "s", ")">>

Beginner == <<"b", "e", "g", "i", "n", "n", "e", "r">>
Intermediate == <<"i", "n", "t", "e", "r", "m", "e", "d", "i", "a", "t", "e">>
Expert == <<"e", "x", "p", "e", "r", "t">>
Difficulties == {Beginner, Intermediate, Expert}

\* The keys that difficultyMap inherits from Object.prototype and that a
\* lower-cased string can spell: their values are truthy and are not strings.
InheritedKeys == {<<"c", "o", "n", "s", "t", "r", "u", "c", "t", "o", "r">>,
                  <<"_", "_", "p", "r", "o", "t", "o", "_", "_">>}

\* A computation that may throw: [threw, msg, v].
Ok(v) == [threw |-> FALSE, msg |-> "", v |-> v]
Throw(m) == [threw |-> TRUE, msg |-> m, v |-> Undef]

\* Math.min(Math.max(parseInt(count) || 5, 1), 15): NaN and 0 are both falsy.
NumQuestions(count) ==
  LET p == ParseInt(count)
      n == IF p.nan \/ p.n = 0 THEN DefaultCount ELSE p.n
  IN Min(Max(n, MinCount), MaxCount)

\* Math.min(numQuestions + 3, 20)
RequestCount(numQuestions) == Min(numQuestions + ExtraQuestions, MaxRequestCount)

\* (topic || "AZ-900 (Microsoft Azure Fundamentals)").slice(0, 80):
\* only strings and arrays have slice.
SafeTopic(topic) ==
  LET v == OrElse(topic, Str(DefaultTopic))
  IN IF v.t \in {"str", "arr"}
     THEN Ok([v EXCEPT !.s = Slice0(v.s, MaxTopicLen)])
     ELSE Throw("TypeError: (topic || \"AZ-900 (Microsoft Azure Fundamentals)\").slice is not a function")

\* difficultyMap[key]: an own key, else an inherited one, else undefined.
DifficultyMap(key) ==
  IF key \in Difficulties THEN Str(key)
  ELSE IF key \in InheritedKeys THEN Fn
  ELSE Undef

\* difficultyMap[(difficulty || "").toLowerCase()] || "beginner":
\* only strings have toLowerCase.
SafeDifficulty(difficulty) ==
  LET v == OrElse(difficulty, Str(<<>>))
  IN IF v.t = "str"
     THEN Ok(OrElse(DifficultyMap(ToLowerCase(v.s)), Str(Beginner)))
     ELSE Throw("TypeError: (difficulty || \"\").toLowerCase is not a function")

\* The guidance sentence of the quiz prompt, lines 92-97.
DifficultyDescription(safeDifficulty) ==
  IF safeDifficulty = Str(Beginner)
  THEN "Focus on fundamentals, clear definitions, and simple scenarios."
  ELSE IF safeDifficulty = Str(Intermediate)
  THEN "Focus on applied scenarios, comparisons between services, and realistic use-cases."
  ELSE "Focus on deeper scenarios, trade-offs, and multi-step reasoning similar to harder exam questions. Avoid obscure trivia."

UpperChar(c) ==
  IF \E i \in 1..26 : LowerChars[i] = c
  THEN UpperChars[CHOOSE i \in 1..26 : LowerChars[i] = c]
  ELSE c

\* String.prototype.toUpperCase
ToUpperCase(s) == [i \in 1..Len(s) |-> UpperChar(s[i])]

\* What is passed to the model: the values the prompt template interpolates.
NoPrompt == [requestCount |-> 0, topic |-> <<>>, difficulty |-> <<>>, guidance |-> "",
             text |-> <<>>]

\* The quiz prompt, lines 101-135; ${safeDifficulty.toUpperCase()} throws
\* when safeDifficulty is not a string.
QuizPrompt(requestCount, safeTopic, safeDifficulty) ==
  IF safeDifficulty.t = "str"
  THEN Ok([requestCount |-> requestCount, topic |-> JsString(safeTopic),
           difficulty |-> ToUpperCase(safeDifficulty.s),
           guidance |-> DifficultyDescription(safeDifficulty), text |-> <<>>])
  ELSE Throw("TypeError: safeDifficulty.toUpperCase is not a function")

\* The check without the trim: !text alone.
TextMissingUntrimmed(text) == Ok(~Truthy(text))

\* !text || !text.trim(): only strings have trim.
TextMissing(text) ==
  IF ~Truthy(text) THEN Ok(TRUE)
  ELSE IF text.t = "str" THEN Ok(Len(Trim(text.s)) = 0)
  ELSE Throw("TypeError: text.trim is not a function")

\* text.slice(0, 500); text is a string here.
SafeText(text) == Slice0(text.s, MaxTextLen)

\* (difficulty || 'beginner').toLowerCase() and the level it selects.
ExplainLevel(difficulty) ==
  LET v == OrElse(difficulty, Str(Beginner))
      label == ToLowerCase(v.s)
  IN IF v.t # "str"
     THEN Throw("TypeError: (difficulty || \"beginner\").toLowerCase is not a function")
     ELSE IF label = Expert
     THEN [threw |-> FALSE, v |-> Undef,
           msg |-> "advanced (assume some prior Azure knowledge, focus on depth)"]
     ELSE IF label = Intermediate
     THEN [threw |-> FALSE, v |-> Undef,
           msg |-> "intermediate (mix of plain language and technical detail)"]
     ELSE [threw |-> FALSE, v |-> Undef,
           msg |-> "beginner (plain language, minimal jargon)"]

----------------------------------------------------------------------------
(* buildErrorDebugInfo, lines 32-72 *)

\* A failure object: t = "obj" | "null" | "undef" (what `err &&` tests),
\* status a JavaScript value, code and message strings ("" when absent or
\* empty: both are falsy).
Err(status, code, message) ==
  [t |-> "obj", status |-> status, code |-> code, message |-> message]
NoErr == [t |-> "undef", status |-> Undef, code |-> "", message |-> ""]
TypeError(m) == Err(Undef, "", m)

\* A debug string: its fixed text and the values interpolated into it.
Debug(text) == [text |-> text, status |-> 0, code |-> "", message |-> ""]

NetworkCodes == {"ENOTFOUND", "ECONNREFUSED", "ECONNRESET", "ETIMEDOUT"}

MissingKeyText == "Missing OPENAI_API_KEY in .env. Set it and restart the server."

StatusUnauthorized == 401
StatusTooManyRequests == 429
StatusServerError == 500

\* The classification with the network code looked at before the status.
ClassifyFailureCodeFirst(err) ==
  IF err.t = "obj" /\ err.code \in NetworkCodes
  THEN [Debug("Network error (${err.code}) while contacting OpenAI. Check your internet connection or firewall.")
          EXCEPT !.code = err.code]
  ELSE IF err.t = "obj" /\ Truthy(err.status)
  THEN LET base == [Debug("") EXCEPT !.status = err.status.n]
       IN IF err.status.n = StatusUnauthorized
          THEN [base EXCEPT !.text = "OpenAI API error (status ${err.status}). Authentication failed. Check your API key."]
          ELSE IF err.status.n = StatusTooManyRequests
          THEN [base EXCEPT !.text = "OpenAI API error (status ${err.status}). Rate limit or quota exceeded."]
          ELSE IF err.status.n >= StatusServerError
          THEN [base EXCEPT !.text = "OpenAI API error (status ${err.status}). OpenAI server side error, try again."]
          ELSE [base EXCEPT !.text = "OpenAI API error (status ${err.status}). Check server logs for more details."]
  ELSE IF err.t = "obj" /\ err.message # ""
  THEN [Debug("Unexpected error: ${err.message}") EXCEPT !.message = err.message]
  ELSE Debug("Unknown error occurred while calling OpenAI.")

\* Lines 38-71: the classification when a key is configured.
ClassifyFailure(err) ==
  IF err.t = "obj" /\ Truthy(err.status)
  THEN LET base == [Debug("") EXCEPT !.status = err.status.n]
       IN IF err.status.n = StatusUnauthorized
          THEN [base EXCEPT !.text = "OpenAI API error (status ${err.status}). Authentication failed. Check your API key."]
          ELSE IF err.status.n = StatusTooManyRequests
          THEN [base EXCEPT !.text = "OpenAI API error (status ${err.status}). Rate limit or quota exceeded."]
          ELSE IF err.status.n >= StatusServerError
          THEN [base EXCEPT !.text = "OpenAI API error (status ${err.status}). OpenAI server side error, try again."]
          ELSE [base EXCEPT !.text = "OpenAI API error (status ${err.status}). Check server logs for more details."]
  ELSE IF err.t = "obj" /\ err.code \in NetworkCodes
  THEN [Debug("Network error (${err.code}) while contacting OpenAI. Check your internet connection or firewall.")
          EXCEPT !.code = err.code]
  ELSE IF err.t = "obj" /\ err.message # ""
  THEN [Debug("Unexpected error: ${err.message}") EXCEPT !.message = err.message]
  ELSE Debug("Unknown error occurred while calling OpenAI.")

\* The classifier without the test of the key.
buildErrorDebugInfoKeyless(key, err) == ClassifyFailure(err)

\* key: whether process.env.OPENAI_API_KEY is set.
buildErrorDebugInfo(key, err) ==
  IF ~key THEN Debug(MissingKeyText) ELSE ClassifyFailure(err)

----------------------------------------------------------------------------
(* The model's output.  The text of a completion is a sequence of lexemes:  *)
(* white space, the JSON punctuation "[" "]" ",", JSON literals, and object *)
(* literals named by the table ObjectLiterals.                              *)

NoOptions == [t |-> "undef", items |-> <<>>]
OptionsArray(items) == [t |-> "arr", items |-> items]
OptionsString(items) == [t |-> "str", items |-> items]

\* An element of the parsed array: prim is the value itself as far as
\* truthiness goes, the other fields are its properties (undefined on a
\* value that has none).
Element(prim) ==
  [prim |-> prim, id |-> Undef, question |-> Undef, options |-> NoOptions,
   correctOption |-> Undef, explanation |-> Undef]

Question(id, question, options, correctOption, explanation) ==
  [prim |-> Obj, id |-> id, question |-> question, options |-> options,
   correctOption |-> correctOption, explanation |-> explanation]

S1(c) == Str(<<c>>)
FourTexts == <<S1("w"), S1("x"), S1("y"), S1("z")>>
FourMixed == <<S1("w"), Num(2), Null, Bool(TRUE)>>

ObjectLiterals ==
  [x \in {"{good}", "{noid}", "{q2}", "{notext}", "{three}", "{five}", "{stropts}",
          "{numtext}", "{}"} |->
     CASE x = "{good}" ->
            Question(Str(<<"q", "1">>), S1("G"), OptionsArray(FourTexts), S1("B"), S1("e"))
       [] x = "{noid}" ->
            Question(Undef, S1("N"), OptionsArray(FourMixed), S1("E"), Undef)
       [] x = "{q2}" ->
            Question(Str(<<"q", "2">>), S1("T"), OptionsArray(FourTexts), S1("d"), Str(<<>>))
       [] x = "{notext}" ->
            Question(Str(<<"q", "4">>), Str(<<>>), OptionsArray(FourTexts), S1("A"), Undef)
       [] x = "{three}" ->
            Question(Str(<<>>), S1("H"), OptionsArray(SubSeq(FourTexts, 1, 3)), S1("C"), Undef)
       [] x = "{five}" ->
            Question(Undef, S1("F"), OptionsArray(Append(FourTexts, S1("v"))), S1("D"), Undef)
       [] x = "{stropts}" ->
            Question(Undef, S1("S"), OptionsString(FourTexts), S1("A"), Undef)
       [] x = "{numtext}" ->
            Question(Str(<<>>), Num(7), OptionsArray(FourTexts), Num(1), Num(0))
       [] OTHER -> Element(Obj)]

ScalarLiterals ==
  [x \in {"null", "false", "true", "0", "7", "\"\"", "\"s\""} |->
     CASE x = "null" -> Null
       [] x = "false" -> Bool(FALSE)
       [] x = "true" -> Bool(TRUE)
       [] x = "0" -> Num(0)
       [] x = "7" -> Num(7)
       [] x = "\"\"" -> Str(<<>>)
       [] OTHER -> S1("s")]

IsLiteral(tok) == tok \in DOMAIN ObjectLiterals \/ tok \in DOMAIN ScalarLiterals

LiteralValue(tok) ==
  IF tok \in DOMAIN ObjectLiterals THEN ObjectLiterals[tok]
  ELSE Element(ScalarLiterals[tok])

\* A parse result: ok, the position after the value, whether it is an array,
\* its elements when it is, the value itself when it is not.
ParseFail == [ok |-> FALSE, next |-> 0, isArray |-> FALSE, elems |-> <<>>, v |-> Element(Undef)]
ParsedArray(next, elems) ==
  [ok |-> TRUE, next |-> next, isArray |-> TRUE, elems |-> elems, v |-> Element(Arr(<<>>))]
ParsedValue(next, v) ==
  [ok |-> TRUE, next |-> next, isArray |-> FALSE, elems |-> <<>>, v |-> v]

RECURSIVE SkipSpace(_, _)
SkipSpace(toks, i) ==
  IF i <= Len(toks) /\ IsSpace(toks[i]) THEN SkipSpace(toks, i + 1) ELSE i

RECURSIVE ParseValue(_, _)
RECURSIVE ParseElements(_, _, _)

\* value := literal | "[" "]" | "[" value ("," value)* "]"
ParseValue(toks, i0) ==
  LET i == SkipSpace(toks, i0)
  IN IF i > Len(toks) THEN ParseFail
     ELSE IF IsLiteral(toks[i]) THEN ParsedValue(i + 1, LiteralValue(toks[i]))
     ELSE IF toks[i] = "["
     THEN LET j == SkipSpace(toks, i + 1)
          IN IF j <= Len(toks) /\ toks[j] = "]" THEN ParsedArray(j + 1, <<>>)
             ELSE ParseElements(toks, j, <<>>)
     ELSE ParseFail

\* The elements of an array from position i on, acc the ones read so far.
ParseElements(toks, i, acc) ==
  LET e == ParseValue(toks, i)
      j == SkipSpace(toks, e.next)
      got == Append(acc, e.v)
  IN IF ~e.ok \/ j > Len(toks) THEN ParseFail
     ELSE IF toks[j] = "," THEN ParseElements(toks, j + 1, got)
     ELSE IF toks[j] = "]" THEN ParsedArray(j + 1, got)
     ELSE ParseFail

\* JSON.parse(raw): fails (throws) unless the whole text is one value.
JsonParse(raw) ==
  LET p == ParseValue(raw, 1)
  IN IF p.ok /\ SkipSpace(raw, p.next) > Len(raw) THEN p ELSE ParseFail

\* The content as it came, with no trim and no fallback for empty text.
RawContentAsIs(completion, fallback) ==
  IF completion.choices = 0 \/ Nullish(completion.content) THEN fallback
  ELSE completion.content.s

\* completion.choices[0]?.message?.content?.trim() || fallback
RawContent(completion, fallback) ==
  IF completion.choices = 0 \/ Nullish(completion.content) THEN fallback
  ELSE IF Len(Trim(completion.content.s)) = 0 THEN fallback
  ELSE Trim(completion.content.s)

----------------------------------------------------------------------------
(* Validation of the parsed output, lines 176-201 *)

Letters == {S1("A"), S1("B"), S1("C"), S1("D")}
RequiredOptions == 4

\* The filter without the length test.
KeepsAnyLength(q) ==
  Truthy(q.prim) /\ Truthy(q.question) /\ q.options.t = "arr"

\* The filter of lines 178-181.
Keeps(q) ==
  /\ Truthy(q.prim)
  /\ Truthy(q.question)
  /\ q.options.t = "arr"
  /\ Len(q.options.items) = RequiredOptions

\* `q${idx + 1}`
FallbackId(idx) == Str(<<"q">> \o NatToStr(idx + 1))

\* The map of lines 182-190; idx is the 0-based index in the filtered array.
Clean(q, idx) ==
  [id |-> OrElse(q.id, FallbackId(idx)),
   question |-> JsString(q.question),
   options |-> [i \in 1..Len(q.options.items) |-> JsString(q.options.items[i])],
   correctOption |-> IF q.correctOption \in Letters THEN q.correctOption ELSE S1("A"),
   explanation |-> IF Truthy(q.explanation) THEN JsString(q.explanation) ELSE <<>>]

\* (questions || []).filter(...).map(...): only arrays have filter.
Cleaned(parsed) ==
  IF parsed.isArray
  THEN LET kept == SelectSeq(parsed.elems, Keeps)
       IN Ok([i \in 1..Len(kept) |-> Clean(kept[i], i - 1)])
  ELSE IF ~Truthy(parsed.v.prim) THEN Ok(<<>>)
  ELSE Throw("TypeError: (questions || []).filter is not a function")

----------------------------------------------------------------------------
(* Cost estimate, lines 203-229 *)

NoUsage == [present |-> FALSE, prompt_tokens |-> Undef, input_tokens |-> Undef,
            completion_tokens |-> Undef, output_tokens |-> Undef]

\* The same with || for ??: a count of 0 falls through to the next name.
PromptTokensOr(usage) ==
  OrElse(OrElse(usage.prompt_tokens, usage.input_tokens), Num(0)).n

\* usage.prompt_tokens ?? usage.input_tokens ?? 0
PromptTokens(usage) ==
  Coalesce(Coalesce(usage.prompt_tokens, usage.input_tokens), Num(0)).n

\* usage.completion_tokens ?? usage.output_tokens ?? 0
CompletionTokens(usage) ==
  Coalesce(Coalesce(usage.completion_tokens, usage.output_tokens), Num(0)).n

\* The prices per million tokens, in quarter dollars: $0.25 and $2.00.
InputPriceQuarters == 1
OutputPriceQuarters == 8
QuartersPerDollar == 4

\* The half-way cases (k + 0.5) / 1_000_000 whose double lies above the exact
\* value, so that toFixed(6) gives k + 1 millionths; for the other k of
\* TieKnown the double lies below and toFixed(6) gives k.  (A tie outside
\* TieKnown is not modelled: ToFixed6 gives -1 there.)
TieKnown == (0..63) \cup (1000..1003)
TieRoundsUp == {1, 2, 4, 7, 9, 11, 12, 14, 15, 16, 20, 21, 22, 26, 27, 28, 33, 35, 38,
                40, 42, 43, 45, 47, 50, 52, 54, 55, 57, 59, 60, 61, 62, 1000, 1001, 1003}

\* Number(costUsd.toFixed(6)) in millionths of a dollar, from the cost in
\* quarters of a millionth: round to nearest, the exact double deciding a tie.
ToFixed6(quarters) ==
  LET k == quarters \div QuartersPerDollar
      rem == quarters % QuartersPerDollar
  IN IF rem * 2 < QuartersPerDollar THEN k
     ELSE IF rem * 2 > QuartersPerDollar THEN k + 1
     ELSE IF k \in TieRoundsUp THEN k + 1
     ELSE IF k \in TieKnown THEN k
     ELSE -1

\* The usage object of the 200 response; estimatedCostUsd in millionths.
UsageReport(usage) ==
  LET promptTokens == PromptTokens(usage)
      completionTokens == CompletionTokens(usage)
  IN [promptTokens |-> promptTokens,
      completionTokens |-> completionTokens,
      totalTokens |-> promptTokens + completionTokens,
      estimatedCostUsd |-> ToFixed6(promptTokens * InputPriceQuarters
                                    + completionTokens * OutputPriceQuarters)]

NoUsageReport == [promptTokens |-> 0, completionTokens |-> 0, totalTokens |-> 0,
                  estimatedCostUsd |-> 0]

----------------------------------------------------------------------------
(* Responses *)

Response(status, fields) ==
  [status |-> status, fields |-> fields, error |-> "", debug |-> Debug(""),
   topic |-> Undef, difficulty |-> Undef, questions |-> <<>>,
   usage |-> NoUsageReport, explanation |-> <<>>]

HttpOk == 200
HttpBadRequest == 400
HttpServerError == 500

\* res.status(500).json({ error, debug })
Failure(error, debug) ==
  [Response(HttpServerError, {"error", "debug"}) EXCEPT !.error = error, !.debug = debug]

\* The outer catch of each handler, lines 230-237 and 310-317.
OuterCatch(key, msg) ==
  Failure("Internal server error.", buildErrorDebugInfo(key, TypeError(msg)))

----------------------------------------------------------------------------
(* The handlers.  Each runs synchronously up to the model call, is suspended *)
(* on it, and runs synchronously from its result to the response.            *)

NoLocals == [safeTopic |-> Undef, safeDifficulty |-> Undef, numQuestions |-> 0]

\* A request body: the parsed JSON object, an absent field being undefined.
Body(endpoint, topic, count, difficulty, text) ==
  [endpoint |-> endpoint, topic |-> topic, count |-> count, difficulty |-> difficulty,
   text |-> text]
NoBody == Body("none", Undef, Undef, Undef, Undef)

\* Lines 76-135: the handler's locals and prompt, or the TypeError thrown.
QuizSanitize(body) ==
  LET numQuestions == NumQuestions(body.count)
      topic == SafeTopic(body.topic)
      difficulty == SafeDifficulty(body.difficulty)
      prompt == QuizPrompt(RequestCount(numQuestions), topic.v, difficulty.v)
  IN IF topic.threw THEN [threw |-> TRUE, msg |-> topic.msg, locals |-> NoLocals, prompt |-> NoPrompt]
     ELSE IF difficulty.threw
     THEN [threw |-> TRUE, msg |-> difficulty.msg, locals |-> NoLocals, prompt |-> NoPrompt]
     ELSE IF prompt.threw
     THEN [threw |-> TRUE, msg |-> prompt.msg, locals |-> NoLocals, prompt |-> NoPrompt]
     ELSE [threw |-> FALSE, msg |-> "",
           locals |-> [safeTopic |-> topic.v, safeDifficulty |-> difficulty.v,
                       numQuestions |-> numQuestions],
           prompt |-> prompt.v]

\* Lines 160-229: the response to a completion.
QuizRespond(key, loc, completion) ==
  LET raw == RawContent(completion, <<"[", "]">>)
      questions == JsonParse(raw)
      cleaned == Cleaned(questions)
  IN IF ~questions.ok
     THEN Failure("Failed to parse questions from AI (invalid JSON).",
                  Debug("The model did not return valid JSON. Check the prompt or inspect server logs to see the raw output."))
     ELSE IF cleaned.threw THEN OuterCatch(key, cleaned.msg)
     ELSE IF Len(cleaned.v) = 0
     THEN Failure("No valid questions generated from AI.",
                  Debug("The AI response did not contain properly formatted questions. Try again or adjust the prompt."))
     ELSE [Response(HttpOk, {"topic", "difficulty", "questions", "usage"})
             EXCEPT !.topic = loc.safeTopic, !.difficulty = loc.safeDifficulty,
                    !.questions = cleaned.v,
                    !.usage = UsageReport(IF completion.usage.present
                                          THEN completion.usage ELSE NoUsage)]

\* Lines 242-282: 400, or the locals and prompt, or the TypeError thrown.
ExplainSanitize(body) ==
  LET missing == TextMissing(body.text)
      topic == SafeTopic(body.topic)
      level == ExplainLevel(body.difficulty)
      none == [threw |-> FALSE, msg |-> "", bad |-> FALSE, locals |-> NoLocals,
               prompt |-> NoPrompt]
  IN IF missing.threw THEN [none EXCEPT !.threw = TRUE, !.msg = missing.msg]
     ELSE IF missing.v THEN [none EXCEPT !.bad = TRUE]
     ELSE IF topic.threw THEN [none EXCEPT !.threw = TRUE, !.msg = topic.msg]
     ELSE IF level.threw THEN [none EXCEPT !.threw = TRUE, !.msg = level.msg]
     ELSE [none EXCEPT !.locals = [NoLocals EXCEPT !.safeTopic = topic.v],
                       !.prompt = [NoPrompt EXCEPT !.topic = JsString(topic.v),
                                                   !.guidance = level.msg,
                                                   !.text = SafeText(body.text)]]

\* Lines 305-309.
ExplainRespond(loc, completion) ==
  [Response(HttpOk, {"topic", "explanation"})
     EXCEPT !.topic = loc.safeTopic,
            !.explanation = RawContent(completion,
                                       <<"Sorry, I could not generate an explanation.">>)]

NoCompletion == [choices |-> 0, content |-> Undef, usage |-> NoUsage]
NoOutcome == [kind |-> "none", err |-> NoErr, completion |-> NoCompletion]

Requests == {"r1", "r2"}

Init ==
  /\ apiKey \in BOOLEAN
  /\ pc = [r \in Requests |-> "idle"]
  /\ req = [r \in Requests |-> NoBody]
  /\ locals = [r \in Requests |-> NoLocals]
  /\ sent = [r \in Requests |-> NoPrompt]
  /\ calls = [r \in Requests |-> 0]
  /\ outcome = [r \in Requests |-> NoOutcome]
  /\ responses = [r \in Requests |-> <<>>]

\* A response sent without the handler ending.
SendNoReturn(r, response) ==
  /\ responses' = [responses EXCEPT ![r] = Append(@, response)]
  /\ UNCHANGED pc

\* res.json(...) / res.status(...).json(...): the handler ends with it.
Send(r, response) ==
  /\ responses' = [responses EXCEPT ![r] = Append(@, response)]
  /\ pc' = [pc EXCEPT ![r] = "done"]

\* The sanitized values kept in one variable that all requests share.
CallModelShared(r, loc, prompt) ==
  /\ locals' = [q \in Requests |-> loc]
  /\ sent' = [sent EXCEPT ![r] = prompt]
  /\ calls' = [calls EXCEPT ![r] = @ + 1]
  /\ pc' = [pc EXCEPT ![r] = "awaiting"]
  /\ UNCHANGED responses

\* await openai.chat.completions.create(...)
CallModel(r, loc, prompt) ==
  /\ locals' = [locals EXCEPT ![r] = loc]
  /\ sent' = [sent EXCEPT ![r] = prompt]
  /\ calls' = [calls EXCEPT ![r] = @ + 1]
  /\ pc' = [pc EXCEPT ![r] = "awaiting"]
  /\ UNCHANGED responses

\* POST /api/generate-quiz arrives: lines 74-139 (or the outer catch).
QuizRequest(r, body) ==
  /\ pc[r] = "idle"
  /\ body.endpoint = "quiz"
  /\ req' = [req EXCEPT ![r] = body]
  /\ LET s == QuizSanitize(body)
     IN IF s.threw
        THEN Send(r, OuterCatch(apiKey, s.msg)) /\ UNCHANGED <<locals, sent, calls>>
        ELSE CallModel(r, s.locals, s.prompt)
  /\ UNCHANGED <<apiKey, outcome>>

\* The model call fails: lines 151-158.
QuizReject(r, err) ==
  /\ pc[r] = "awaiting"
  /\ req[r].endpoint = "quiz"
  /\ outcome' = [outcome EXCEPT ![r] = [NoOutcome EXCEPT !.kind = "rejected", !.err = err]]
  /\ Send(r, Failure("Failed to call OpenAI API.", buildErrorDebugInfo(apiKey, err)))
  /\ UNCHANGED <<apiKey, req, locals, sent, calls>>

\* The model call returns: lines 160-229 (or the outer catch).
QuizResolve(r, completion) ==
  /\ pc[r] = "awaiting"
  /\ req[r].endpoint = "quiz"
  /\ outcome' = [outcome EXCEPT ![r] = [NoOutcome EXCEPT !.kind = "resolved",
                                                          !.completion = completion]]
  /\ Send(r, QuizRespond(apiKey, locals[r], completion))
  /\ UNCHANGED <<apiKey, req, locals, sent, calls>>

\* POST /api/explain arrives: lines 240-286 (or the outer catch).
ExplainRequest(r, body) ==
  /\ pc[r] = "idle"
  /\ body.endpoint = "explain"
  /\ req' = [req EXCEPT ![r] = body]
  /\ LET s == ExplainSanitize(body)
     IN IF s.threw
        THEN Send(r, OuterCatch(apiKey, s.msg)) /\ UNCHANGED <<locals, sent, calls>>
        ELSE IF s.bad
        THEN /\ Send(r, [Response(HttpBadRequest, {"error"})
                           EXCEPT !.error = "No text provided to explain."])
             /\ UNCHANGED <<locals, sent, calls>>
        ELSE CallModel(r, s.locals, s.prompt)
  /\ UNCHANGED <<apiKey, outcome>>

\* The model call fails: lines 296-303.
ExplainReject(r, err) ==
  /\ pc[r] = "awaiting"
  /\ req[r].endpoint = "explain"
  /\ outcome' = [outcome EXCEPT ![r] = [NoOutcome EXCEPT !.kind = "rejected", !.err = err]]
  /\ Send(r, Failure("Failed to call OpenAI API for explanation.",
                     buildErrorDebugInfo(apiKey, err)))
  /\ UNCHANGED <<apiKey, req, locals, sent, calls>>

\* The model call returns: lines 305-309.
ExplainResolve(r, completion) ==
  /\ pc[r] = "awaiting"
  /\ req[r].endpoint = "explain"
  /\ outcome' = [outcome EXCEPT ![r] = [NoOutcome EXCEPT !.kind = "resolved",
                                                          !.completion = completion]]
  /\ Send(r, ExplainRespond(locals[r], completion))
  /\ UNCHANGED <<apiKey, req, locals, sent, calls>>

----------------------------------------------------------------------------
(* Inputs *)

Topics ==
  {Undef, Null, Str(<<>>), Str(<<"G", "o">>), Str(Rep("x", MaxTopicLen + 1)),
   Num(0), Num(12), Bool(TRUE), Arr(<<"a", "b">>), Obj}

Counts ==
  {Undef, Null, Num(-3), Num(0), Num(1), Num(7), Num(15), Num(16), Num(999),
   Str(<<"0">>), Str(<<"1", "2", "a", "b", "c">>), Str(<<"a", "b", "c">>),
   Str(<<" ", "3">>), Str(<<"-", "0">>), Str(<<>>), Bool(TRUE), Arr(<<"7">>), Obj}

DifficultyInputs ==
  {Undef, Null, Str(<<>>), Str(Beginner), Str(Expert),
   Str(<<"I", "n", "t", "e", "r", "m", "e", "d", "i", "a", "t", "e">>),
   Str(<<"E", "X", "P", "E", "R", "T">>), Str(<<"h", "a", "r", "d">>),
   Str(<<"c", "o", "n", "s", "t", "r", "u", "c", "t", "o", "r">>),
   Str(<<"_", "_", "p", "r", "o", "t", "o", "_", "_">>),
   Num(2), Bool(TRUE), Arr(<<>>), Obj}

Texts ==
  {Undef, Null, Str(<<>>), Str(<<" ", "\n">>), Str(<<"V", "M">>),
   Str(Rep("y", MaxTextLen + 1)), Num(0), Num(5), Obj}

QuizBodies ==
  {Body("quiz", t, c, d, Undef) : t \in Topics, c \in Counts, d \in DifficultyInputs}

ExplainBodies ==
  {Body("explain", t, Undef, d, x) : t \in Topics, d \in DifficultyInputs, x \in Texts}

PlainQuizBodies == {Body("quiz", Undef, Num(5), Undef, Undef)}
PlainExplainBodies == {Body("explain", Undef, Undef, Undef, Str(<<"V", "M">>))}

Usage(p, i, c, o) ==
  [present |-> TRUE, prompt_tokens |-> p, input_tokens |-> i, completion_tokens |-> c,
   output_tokens |-> o]

Completion(content, usage) == [choices |-> 1, content |-> content, usage |-> usage]

PlainUsage == Usage(Num(1000), Undef, Num(500), Undef)

FewCompletions ==
  {[NoCompletion EXCEPT !.usage = PlainUsage]}
  \cup {Completion(c, PlainUsage) :
          c \in {Undef, Str(<<" ">>), Str(<<"not json">>), Str(<<"[", "]">>),
                 Str(<<"[", "{good}", "]">>), Str(<<"[", "{notext}", "]">>),
                 Str(<<"{}">>)}}

FewErrs ==
  {[NoErr EXCEPT !.t = "null"],
   Err(Num(401), "", "Incorrect API key provided"),
   Err(Num(503), "ECONNRESET", "upstream"),
   Err(Undef, "ETIMEDOUT", "timed out"),
   Err(Undef, "", "boom"),
   Err(Undef, "", "")}

\* Every combination of an HTTP-like status, a code and a message, and the
\* failures that are no object.
ErrStatuses == {Undef, Num(400), Num(401), Num(404), Num(429), Num(499), Num(500), Num(503)}
ErrCodes == {"", "ENOTFOUND", "ECONNREFUSED", "ECONNRESET", "ETIMEDOUT", "EPIPE"}
ErrMessages == {"", "boom"}

ManyErrs ==
  {NoErr, [NoErr EXCEPT !.t = "null"]}
  \cup {Err(st, c, m) : st \in ErrStatuses, c \in ErrCodes, m \in ErrMessages}

\* The elements a model output is built from, and the longest array of them.
MaxQuestions == 3
ElementLexemes ==
  {"{good}", "{noid}", "{q2}", "{notext}", "{three}", "{stropts}", "{numtext}", "null"}

RECURSIVE SeqsUpTo(_, _)
SeqsUpTo(S, k) ==
  IF k = 0 THEN {<<>>}
  ELSE LET shorter == SeqsUpTo(S, k - 1)
       IN shorter \cup {Append(a, x) : a \in {b \in shorter : Len(b) = k - 1}, x \in S}

\* JSON text of an array of literals: compact, or with white space around
\* every lexeme.
Compact(a) == <<"[">> \o JoinComma(a) \o <<"]">>

RECURSIVE Spaced(_)
Spaced(toks) ==
  IF Len(toks) = 0 THEN <<"\n">> ELSE <<"\n", toks[1], " ">> \o Spaced(Tail(toks))

\* An output cut off before its last lexeme.
Truncated(toks) == SubSeq(toks, 1, Len(toks) - 1)

ArrayTexts ==
  UNION {{Compact(a), Spaced(Compact(a)), Truncated(Compact(a))} :
           a \in SeqsUpTo(ElementLexemes, MaxQuestions)}

OtherTexts ==
  {<<>>, <<" ", "\n">>, <<"not json">>, <<"[", ",", "]">>, <<"[", "{good}", ",", "]">>,
   <<"[", "{good}", "{q2}", "]">>, <<"[", "]", "]">>, <<"[", "[", "{good}", "]", "]">>,
   <<"{good}", "{good}">>, <<"[", "{five}", "]">>,
   <<"[", "{good}", ",", "7", ",", "{five}", ",", "{}", ",", "{noid}", "]">>}
  \cup {<<x>> : x \in DOMAIN ObjectLiterals \cup DOMAIN ScalarLiterals}

ManyCompletions ==
  {[NoCompletion EXCEPT !.usage = PlainUsage], Completion(Undef, PlainUsage),
   Completion(Null, PlainUsage)}
  \cup {Completion(Str(x), PlainUsage) : x \in ArrayTexts \cup OtherTexts}

PromptCounts == {Undef, Null, Num(0), Num(2), Num(3), Num(1000)}
CompletionCounts == {Undef, Null, Num(0), Num(1), Num(500)}

CostCompletions ==
  {Completion(Str(<<"[", "{good}", "]">>), NoUsage)}
  \cup {Completion(Str(<<"[", "{good}", "]">>), Usage(p, i, c, o)) :
          p \in PromptCounts, i \in PromptCounts,
          c \in CompletionCounts, o \in CompletionCounts}

----------------------------------------------------------------------------
(* Specifications *)

\* The request whose handler runs.
Active == {"r1"}

NextOn(quizBodies, explainBodies, completions, explanations, errs) ==
  \E r \in Active :
    \/ \E body \in quizBodies : QuizRequest(r, body)
    \/ \E err \in errs : QuizReject(r, err)
    \/ \E completion \in completions : QuizResolve(r, completion)
    \/ \E body \in explainBodies : ExplainRequest(r, body)
    \/ \E err \in errs : ExplainReject(r, err)
    \/ \E completion \in explanations : ExplainResolve(r, completion)

\* Every shape of request body, a few outcomes of the model call.
Next == NextOn(QuizBodies, ExplainBodies, FewCompletions, FewCompletions, FewErrs)
Spec == Init /\ [][Next]_vars

\* One request body per endpoint, every model output.
NextValidate ==
  NextOn(PlainQuizBodies, PlainExplainBodies, ManyCompletions, FewCompletions, FewErrs)
SpecValidate == Init /\ [][NextValidate]_vars

\* One request body per endpoint, every usage object.
NextCost ==
  NextOn(PlainQuizBodies, PlainExplainBodies, CostCompletions, FewCompletions, FewErrs)
SpecCost == Init /\ [][NextCost]_vars

\* The awaited model call of request r settles, by a value or by a failure.
Settle(r) ==
  \/ \E err \in FewErrs : QuizReject(r, err) \/ ExplainReject(r, err)
  \/ \E completion \in FewCompletions :
       QuizResolve(r, completion) \/ ExplainResolve(r, completion)

\* Every awaited model call settles: the handler is resumed once the promise
\* of openai.chat.completions.create is fulfilled or rejected.
SpecLive == Spec /\ \A r \in Active : WF_vars(Settle(r))

\* One request body per endpoint, every failure of the model call.
NextErrors ==
  NextOn(PlainQuizBodies, PlainExplainBodies, FewCompletions, FewCompletions, ManyErrs)
SpecErrors == Init /\ [][NextErrors]_vars

\* Several requests in flight: each of them is started and resumed in any
\* order, on a few bodies and a few outcomes of the model call.
ConcurrentQuizBodies ==
  {Body("quiz", t, Num(5), d, Undef) :
     t \in {Undef, Str(<<"G", "o">>)}, d \in {Undef, Str(Expert)}}
ConcurrentExplainBodies ==
  {Body("explain", t, Undef, Undef, x) :
     t \in {Undef, Str(<<"G", "o">>)}, x \in {Undef, Str(<<"V", "M">>)}}
ConcurrentCompletions ==
  {Completion(c, PlainUsage) :
     c \in {Undef, Str(<<"not json">>), Str(<<"[", "{good}", "]">>)}}
ConcurrentErrs ==
  {Err(Num(401), "", "Incorrect API key provided"), Err(Undef, "ETIMEDOUT", "timed out")}

NextConcurrent ==
  \E r \in Requests :
    \/ \E body \in ConcurrentQuizBodies : QuizRequest(r, body)
    \/ \E err \in ConcurrentErrs : QuizReject(r, err)
    \/ \E completion \in ConcurrentCompletions : QuizResolve(r, completion)
    \/ \E body \in ConcurrentExplainBodies : ExplainRequest(r, body)
    \/ \E err \in ConcurrentErrs : ExplainReject(r, err)
    \/ \E completion \in ConcurrentCompletions : ExplainResolve(r, completion)
SpecConcurrent == Init /\ [][NextConcurrent]_vars

----------------------------------------------------------------------------
(* Properties *)

IsQuiz(r) == req[r].endpoint = "quiz"
IsExplain(r) == req[r].endpoint = "explain"
Answered(r) == pc[r] = "done" /\ Len(responses[r]) = 1
TheResponse(r) == responses[r][1]
Resolved(r) == Answered(r) /\ outcome[r].kind = "resolved"
\* What JSON.parse made of the model's output for request r.
Parsed(r) == JsonParse(RawContent(outcome[r].completion, <<"[", "]">>))
QuizOk(r) == IsQuiz(r) /\ Resolved(r) /\ TheResponse(r).status = HttpOk

\* The element has a non-empty question text and an array of 4 options.
HasQuestionText(q) ==
  /\ q.question.t = "str" /\ Len(q.question.s) > 0
  /\ q.options.t = "arr" /\ Len(q.options.items) = 4

\* The element has a truthy question value and an array of 4 options.
HasTruthyQuestion(q) ==
  /\ q.prim.t = "obj"
  /\ \/ q.question.t = "str" /\ Len(q.question.s) > 0
     \/ q.question.t = "num" /\ q.question.n # 0
     \/ q.question = Bool(TRUE)
     \/ q.question.t \in {"arr", "obj"}
  /\ q.options.t = "arr" /\ Len(q.options.items) = 4

\* questions is the list made of the elements sel, in order: same texts,
\* 4 options each, correctOption a letter (A when the element's is none).
MadeOf(questions, sel) ==
  /\ Len(questions) = Len(sel)
  /\ Len(questions) > 0
  /\ \A i \in 1..Len(questions) :
       /\ i <= Len(sel)
       /\ questions[i].question = JsString(sel[i].question)
       /\ Len(questions[i].options) = 4
       /\ \A j \in 1..4 :
            j <= Len(sel[i].options.items)
            /\ questions[i].options[j] = JsString(sel[i].options.items[j])
       /\ questions[i].correctOption \in {S1("A"), S1("B"), S1("C"), S1("D")}
       /\ IF sel[i].correctOption \in {S1("A"), S1("B"), S1("C"), S1("D")}
          THEN questions[i].correctOption = sel[i].correctOption
          ELSE questions[i].correctOption = S1("A")

\* C1 as stated: the questions of a 200 response are exactly the elements of
\* the parsed array that have a non-empty question text and 4 options.
C1_Stated ==
  \A r \in Requests :
    (QuizOk(r) /\ Parsed(r).isArray) =>
      MadeOf(TheResponse(r).questions, SelectSeq(Parsed(r).elems, HasQuestionText))

\* C1, amended: the questions of a 200 response are exactly, in order, the
\* elements of the parsed array whose question value is truthy (a non-empty
\* string, a non-zero number, true, an object or an array) and whose options
\* are an array of exactly 4; each has 4 options and a correctOption in
\* {A,B,C,D}, A when the model's value is none of them; the list is non-empty.
C1_Validated ==
  \A r \in Requests :
    (QuizOk(r) /\ Parsed(r).isArray) =>
      MadeOf(TheResponse(r).questions, SelectSeq(Parsed(r).elems, HasTruthyQuestion))

\* A 200 response to an output of three elements, the middle one dropped, one
\* kept with a numeric question and one with its correctOption replaced by A.
C1_Witness ==
  \E r \in Requests :
    /\ QuizOk(r) /\ Parsed(r).isArray
    /\ Len(Parsed(r).elems) = 3
    /\ ~HasTruthyQuestion(Parsed(r).elems[2])
    /\ Parsed(r).elems[1].question.t = "num"
    /\ Parsed(r).elems[3].correctOption \notin {S1("A"), S1("B"), S1("C"), S1("D")}
    /\ Len(TheResponse(r).questions) = 2
    /\ TheResponse(r).questions[2].correctOption = S1("A")

\* The count of a request as the claim reads it: the parsed integer, 5 only
\* when the input does not parse.
ClaimedCount(count) ==
  LET p == ParseInt(count)
      n == IF p.nan THEN 5 ELSE p.n
  IN IF n < 1 THEN 1 ELSE IF n > 15 THEN 15 ELSE n

\* The handler of r went as far as calling the model.
Called(r) == pc[r] \in {"awaiting", "done"} /\ calls[r] = 1

\* C2 as stated: the effective count is the parsed count clamped into
\* [1,15], 5 only on a parse failure, and the model is asked for
\* min(effective + 3, 20) questions; count=0 gives 1 and 4.
C2_Stated ==
  \A r \in Requests :
    (IsQuiz(r) /\ Called(r)) =>
      /\ locals[r].numQuestions = ClaimedCount(req[r].count)
      /\ sent[r].requestCount =
           (IF ClaimedCount(req[r].count) + 3 < 20 THEN ClaimedCount(req[r].count) + 3 ELSE 20)

\* The difficulty input is, case-insensitively, one of the three levels.
ValidDifficulty(d) == d.t = "str" /\ ToLowerCase(d.s) \in {Beginner, Intermediate, Expert}

\* C3 as stated: a quiz request whose difficulty is absent or a string (and
\* whose topic is absent) reaches the model call with the lower-cased
\* difficulty when it is one of the three levels and with "beginner"
\* otherwise, in the prompt and in the 200 response.
C3_Stated ==
  \A r \in Requests :
    (/\ IsQuiz(r) /\ pc[r] # "idle"
     /\ req[r].topic = Undef
     /\ req[r].difficulty.t \in {"undef", "null", "str"}) =>
      LET effective == IF ValidDifficulty(req[r].difficulty)
                       THEN ToLowerCase(req[r].difficulty.s) ELSE Beginner
      IN /\ Called(r)
         /\ sent[r].difficulty = ToUpperCase(effective)
         /\ (QuizOk(r) => TheResponse(r).difficulty = Str(effective))

\* The parsed output holds no valid question: it is no array, or an array
\* with no element that has a truthy question and an array of 4 options.
NoValidQuestion(p) ==
  ~p.isArray \/ \A i \in 1..Len(p.elems) : ~HasTruthyQuestion(p.elems[i])

\* C4 as stated: output that parses as JSON and holds no valid question is
\* answered 500 "No valid questions generated from AI.".
C4_Stated ==
  \A r \in Requests :
    (IsQuiz(r) /\ Resolved(r) /\ Parsed(r).ok /\ NoValidQuestion(Parsed(r))) =>
      /\ TheResponse(r).status = 500
      /\ TheResponse(r).error = "No valid questions generated from AI."

\* The raw text of the completion of r, when it has one.
HasText(r) == outcome[r].completion.choices = 1 /\ outcome[r].completion.content.t = "str"
RawText(r) == outcome[r].completion.content.s
Blank(text) == \A i \in 1..Len(text) : text[i] \in {" ", "\n", "\t"}

\* C5 as stated: raw text that is not valid JSON, empty and blank text
\* included, is answered 500 "Failed to parse questions from AI (invalid
\* JSON).".
C5_Stated ==
  \A r \in Requests :
    (IsQuiz(r) /\ Resolved(r) /\ HasText(r) /\ ~JsonParse(RawText(r)).ok) =>
      /\ TheResponse(r).status = 500
      /\ TheResponse(r).error = "Failed to parse questions from AI (invalid JSON)."

\* C5, amended: raw text that is not blank and is not valid JSON is answered
\* 500 "Failed to parse questions from AI (invalid JSON)."; empty or blank
\* text is read as "[]" and answered 500 "No valid questions generated from
\* AI."; in both cases the model was called once.
C5_ParseFailure ==
  \A r \in Requests :
    (IsQuiz(r) /\ Resolved(r) /\ HasText(r) /\ ~JsonParse(RawText(r)).ok) =>
      /\ TheResponse(r).status = 500
      /\ calls[r] = 1
      /\ TheResponse(r).error =
           (IF Blank(RawText(r)) THEN "No valid questions generated from AI."
            ELSE "Failed to parse questions from AI (invalid JSON).")

\* An output cut off before its closing bracket got the invalid-JSON answer.
C5_Witness ==
  \E r \in Requests :
    /\ IsQuiz(r) /\ Resolved(r) /\ HasText(r)
    /\ RawText(r) = <<"[", "{good}", ",", "{noid}">>
    /\ TheResponse(r).error = "Failed to parse questions from AI (invalid JSON)."

\* The text of an explain request is missing, empty or blank.
NoText(text) == text.t \in {"undef", "null"} \/ (text.t = "str" /\ Blank(text.s))

\* C6: an explain request whose text is missing, empty or blank is answered
\* 400 with an error field, and the model is never called for it.
C6_NoTextNoCall ==
  \A r \in Requests :
    (IsExplain(r) /\ NoText(req[r].text)) =>
      /\ Answered(r)
      /\ TheResponse(r).status = 400
      /\ "error" \in TheResponse(r).fields /\ TheResponse(r).error # ""
      /\ calls[r] = 0
      /\ outcome[r].kind = "none"

\* An explain request with a blank, non-empty text was answered.
C6_Witness ==
  \E r \in Requests :
    /\ IsExplain(r) /\ Answered(r)
    /\ req[r].text.t = "str" /\ Len(req[r].text.s) = 2 /\ Blank(req[r].text.s)
    /\ TheResponse(r).status = 400

Is500(r) == Answered(r) /\ TheResponse(r).status = 500
MissingKeyDebug(r) ==
  TheResponse(r).debug =
    [text |-> "Missing OPENAI_API_KEY in .env. Set it and restart the server.",
     status |-> 0, code |-> "", message |-> ""]

\* C7 as stated: with no credential, every 500 response of either endpoint
\* carries the missing-key message as its debug field.
C7_Stated == \A r \in Requests : (~apiKey /\ Is500(r)) => MissingKeyDebug(r)

\* C7, amended: with no credential, every 500 response of POST /api/explain,
\* and every 500 response of POST /api/generate-quiz other than the two sent
\* for unparseable output and for zero valid questions, carries the
\* missing-key message as its debug field; those two carry their own fixed
\* debug texts.
C7_MissingKey ==
  \A r \in Requests :
    (~apiKey /\ Is500(r)) =>
      IF TheResponse(r).error = "Failed to parse questions from AI (invalid JSON)."
      THEN TheResponse(r).debug.text =
             "The model did not return valid JSON. Check the prompt or inspect server logs to see the raw output."
      ELSE IF TheResponse(r).error = "No valid questions generated from AI."
      THEN TheResponse(r).debug.text =
             "The AI response did not contain properly formatted questions. Try again or adjust the prompt."
      ELSE MissingKeyDebug(r)

\* With no credential, a model call that failed with status 401 was answered.
C7_Witness ==
  \E r \in Requests :
    /\ ~apiKey /\ Is500(r) /\ IsExplain(r)
    /\ outcome[r].kind = "rejected" /\ outcome[r].err.status = Num(401)
    /\ MissingKeyDebug(r)

\* A token count read from the usage metadata: the first name when it is
\* there, else the second name, else 0 (null counts as absent); 0 too when
\* there is no usage metadata.
TokenCount(usage, first, second) ==
  IF ~usage.present THEN 0
  ELSE IF usage[first].t = "num" THEN usage[first].n
  ELSE IF usage[second].t = "num" THEN usage[second].n
  ELSE 0

\* micros millionths of a dollar is (promptTokens * 0.25 + completionTokens
\* * 2.0) / 1_000_000 dollars rounded to 6 decimals: no other multiple of a
\* millionth is nearer (distances compared in quarters of a millionth).
RoundedCost(micros, promptTokens, completionTokens) ==
  LET d == 4 * micros - (promptTokens + 8 * completionTokens)
  IN -2 <= d /\ d <= 2

\* C8: in every 200 response of POST /api/generate-quiz the token counts are
\* read from the usage metadata (prompt_tokens else input_tokens,
\* completion_tokens else output_tokens, 0 when absent), totalTokens is
\* their sum and estimatedCostUsd is the cost rounded to 6 decimals;
\* 1000 and 500 tokens give 0.00125.
C8_Usage ==
  \A r \in Requests :
    QuizOk(r) =>
      LET u == TheResponse(r).usage
          given == outcome[r].completion.usage
      IN /\ u.promptTokens = TokenCount(given, "prompt_tokens", "input_tokens")
         /\ u.completionTokens = TokenCount(given, "completion_tokens", "output_tokens")
         /\ u.totalTokens = u.promptTokens + u.completionTokens
         /\ RoundedCost(u.estimatedCostUsd, u.promptTokens, u.completionTokens)
         /\ (u.promptTokens = 1000 /\ u.completionTokens = 500 => u.estimatedCostUsd = 1250)

\* A 200 response whose counts came from input_tokens and output_tokens,
\* 1000 and 500, with the cost 0.00125.
C8_Witness ==
  \E r \in Requests :
    /\ QuizOk(r)
    /\ outcome[r].completion.usage.prompt_tokens = Null
    /\ outcome[r].completion.usage.completion_tokens = Undef
    /\ TheResponse(r).usage.promptTokens = 1000
    /\ TheResponse(r).usage.completionTokens = 500
    /\ TheResponse(r).usage.totalTokens = 1500
    /\ TheResponse(r).usage.estimatedCostUsd = 1250

\* C9 as stated: whatever the types of the body's fields, the handler derives
\* a topic of at most 80 characters, a difficulty among the three levels and
\* (quiz) a count in [1,15] and calls the model; the only answer sent before
\* the model call is the 400 of an explain request without text.
C9_Stated ==
  \A r \in Requests :
    pc[r] # "idle" =>
      IF calls[r] = 0
      THEN IsExplain(r) /\ Answered(r) /\ TheResponse(r).status = 400
      ELSE /\ locals[r].safeTopic.t = "str" /\ Len(locals[r].safeTopic.s) <= 80
           /\ IsQuiz(r) =>
                /\ locals[r].safeDifficulty.t = "str"
                /\ locals[r].safeDifficulty.s \in {Beginner, Intermediate, Expert}
                /\ locals[r].numQuestions \in 1..15

\* C10 as stated: the ids of the questions of a 200 response are pairwise
\* distinct.
C10_Stated ==
  \A r \in Requests :
    QuizOk(r) =>
      \A i, j \in 1..Len(TheResponse(r).questions) :
        i # j => TheResponse(r).questions[i].id # TheResponse(r).questions[j].id

\* What a failure object carries.
CarriesStatus(e) == e.t = "obj" /\ e.status.t = "num"
CarriesKnownCode(e) ==
  e.t = "obj" /\ e.code \in {"ENOTFOUND", "ECONNREFUSED", "ECONNRESET", "ETIMEDOUT"}
CarriesMessage(e) == e.t = "obj" /\ e.message # ""

\* C11: buildErrorDebugInfo is total and follows a fixed precedence: the
\* missing-key message when no credential is configured; else, for a failure
\* with a status, the authentication (401), rate-limit (429), server-side
\* (>= 500) or check-logs (any other) message naming the status; else, for a
\* failure with a network code of the known set, the network message naming
\* the code; else "Unexpected error: {message}" for a failure with a message;
\* else the unknown-error message.
C11_Precedence ==
  \A r \in Requests :
    (Answered(r) /\ outcome[r].kind = "rejected") =>
      LET e == outcome[r].err
          d == TheResponse(r).debug
      IN IF ~apiKey
         THEN d = [text |-> "Missing OPENAI_API_KEY in .env. Set it and restart the server.",
                   status |-> 0, code |-> "", message |-> ""]
         ELSE IF CarriesStatus(e)
         THEN /\ d.status = e.status.n /\ d.code = "" /\ d.message = ""
              /\ d.text =
                   (IF e.status.n = 401
                    THEN "OpenAI API error (status ${err.status}). Authentication failed. Check your API key."
                    ELSE IF e.status.n = 429
                    THEN "OpenAI API error (status ${err.status}). Rate limit or quota exceeded."
                    ELSE IF e.status.n >= 500
                    THEN "OpenAI API error (status ${err.status}). OpenAI server side error, try again."
                    ELSE "OpenAI API error (status ${err.status}). Check server logs for more details.")
         ELSE IF CarriesKnownCode(e)
         THEN /\ d.code = e.code /\ d.status = 0 /\ d.message = ""
              /\ d.text = "Network error (${err.code}) while contacting OpenAI. Check your internet connection or firewall."
         ELSE IF CarriesMessage(e)
         THEN /\ d.message = e.message /\ d.status = 0 /\ d.code = ""
              /\ d.text = "Unexpected error: ${err.message}"
         ELSE d = [text |-> "Unknown error occurred while calling OpenAI.",
                   status |-> 0, code |-> "", message |-> ""]

\* With a key, a failure carrying status 503, the code ECONNRESET and a
\* message was classified by its status.
C11_Witness ==
  \E r \in Requests :
    /\ apiKey /\ Answered(r) /\ outcome[r].kind = "rejected"
    /\ outcome[r].err = [t |-> "obj", status |-> Num(503), code |-> "ECONNRESET",
                         message |-> "boom"]
    /\ TheResponse(r).debug.status = 503
    /\ TheResponse(r).debug.text =
         "OpenAI API error (status ${err.status}). OpenAI server side error, try again."

\* Model invocations and responses of request r agree with where its handler is.
OneCallOneResponse(r) ==
  /\ calls[r] <= 1
  /\ Len(responses[r]) <= 1
  /\ pc[r] = "idle" => (calls[r] = 0 /\ responses[r] = <<>>)
  /\ pc[r] = "awaiting" =>
       (calls[r] = 1 /\ responses[r] = <<>> /\ outcome[r].kind = "none")
  /\ pc[r] = "done" =>
       /\ Len(responses[r]) = 1
       /\ outcome[r].kind = "none" <=> calls[r] = 0

\* C12: along every execution of either handler, whatever the body and
\* whatever the model call returns or fails with, at most one model invocation
\* is issued for the request and the request ends with exactly one response:
\* no path sends two, and a request whose model call was issued is answered.
C12_OneCallOneResponse ==
  /\ [](\A r \in Requests : OneCallOneResponse(r))
  /\ \A r \in Requests : (pc[r] = "awaiting") ~> Answered(r)

\* A parse failure of the model output answered once, after one invocation.
C12_Witness ==
  \E r \in Requests :
    /\ IsQuiz(r) /\ pc[r] = "done" /\ calls[r] = 1 /\ Len(responses[r]) = 1
    /\ outcome[r].kind = "resolved"
    /\ responses[r][1].status = 500
    /\ responses[r][1].error = "Failed to parse questions from AI (invalid JSON)."

\* The response a request gets from its own body, the outcome of its own
\* model call and the credential setting, when it runs alone.
SoloResponse(key, body, out) ==
  IF body.endpoint = "quiz"
  THEN LET s == QuizSanitize(body)
       IN IF s.threw THEN OuterCatch(key, s.msg)
          ELSE IF out.kind = "rejected"
          THEN Failure("Failed to call OpenAI API.", buildErrorDebugInfo(key, out.err))
          ELSE QuizRespond(key, s.locals, out.completion)
  ELSE LET s == ExplainSanitize(body)
       IN IF s.threw THEN OuterCatch(key, s.msg)
          ELSE IF s.bad
          THEN [Response(HttpBadRequest, {"error"}) EXCEPT !.error = "No text provided to explain."]
          ELSE IF out.kind = "rejected"
          THEN Failure("Failed to call OpenAI API for explanation.",
                       buildErrorDebugInfo(key, out.err))
          ELSE ExplainRespond(s.locals, out.completion)

\* The prompt a request sends, from its own body.
SoloPrompt(body) ==
  IF body.endpoint = "quiz" THEN QuizSanitize(body).prompt ELSE ExplainSanitize(body).prompt

\* C13: with several requests in flight, interleaved in any order around
\* their suspended model calls, what each request sends to the model and the
\* response it gets are determined by its own body, the outcome of its own
\* model call and the credential setting: they equal those of the request run
\* alone.
C13_Isolated ==
  \A r \in Requests :
    /\ calls[r] = 1 => sent[r] = SoloPrompt(req[r])
    /\ Answered(r) => TheResponse(r) = SoloResponse(apiKey, req[r], outcome[r])

\* Two requests with different topics suspended on their model calls one
\* after the other; the first was resumed and answered with its own topic
\* while the second still waits.
C13_Witness ==
  /\ IsQuiz("r1") /\ IsQuiz("r2")
  /\ req["r1"].topic = Str(<<"G", "o">>) /\ req["r2"].topic = Undef
  /\ req["r2"].difficulty = Str(Expert)
  /\ pc["r2"] = "awaiting" /\ calls["r2"] = 1
  /\ Answered("r1") /\ calls["r1"] = 1 /\ outcome["r1"].kind = "resolved"
  /\ TheResponse("r1").status = 200
  /\ TheResponse("r1").topic = Str(<<"G", "o">>)
  /\ TheResponse("r1").difficulty = Str(Beginner)

====
